---- MODULE Spec2Model ----
(***************************************************************************)
(* The tile-actor simulation engine of automancy: the coordinator (Game),  *)
(* the Map with its save/load, the tile actors' mailboxes and DataMap, and *)
(* the event loop's linking and placement requests.                        *)
(***************************************************************************)
EXTENDS Integers, Sequences, FiniteSets, TLC

\* ------------------------------------------------------------------ bounds
\* number of hex coordinates of the modelled world
NumCoords == 1
\* capacity of the undo history
UndoBound == 2
\* longest tile mailbox
MaxMailbox == 1
\* width (in bits) of the usize tick counter
TickBits == 2
\* the capacity of an inventory, per item
InventoryCap == 2
\* longest string given to a constructor of Id
MaxStr == 2
\* the clock steps a TransactionRecord's animation lasts
AnimationTicks == 2
\* the most records the transaction log holds in the model
MaxLog == 3

\* -------------------------------------------------------------- value sets
TileCoord == 0 .. (NumCoords - 1)
\* Id handles of tile types; "none" is the designated empty type
NoneId == "none"
TileIds == {"none", "node", "miner"}
\* names of tile actors: a stopped actor's name is free again, so one more
\* name than the coordinates of the widest region always leaves a fresh one
ActorIds == 1 .. (NumCoords + 2)
\* Option<T> as a set of at most one element
None == {}
Some(x) == {x}

VARIABLES
    tiles,       \* Map::tiles : TileCoord -> (Id, actor)          (HashMap)
    tick_count,  \* Game::tick_count
    running,     \* tile actors that are created and not stopped
    mailbox,     \* per tile actor: its queue of TileMsg
    handled,     \* the message the coordinator handled last, with its reply
    asker,       \* an external caller blocked in ask(game, SendMsgToTile(..))
    data,        \* per tile actor: its target, script, inventory and link
    undo_steps,  \* the coordinator's bounded undo history (newest last)
    run,         \* observer of a run of recorded placements and their undos
    map_name,    \* Map::map_name
    file,        \* the map files on disk, by map name
    known,       \* the Ids the interner of the loaded configuration knows
    panicked,    \* whether a handler of the coordinator panicked
    before,      \* the map and tile states the last save started from
    linker,      \* on_link_tile of the event loop: its position and locals
    transactions, \* the recorded transactions, by (source, destination)
    closing,     \* the event loop's shutdown: its position and what was done
    saving,      \* Map::save: the tile it waits for, the query, what it got
    asking,      \* the tile actors that wait for the coordinator's reply
    transaction_log, \* the transaction log: records with the time they have been in it
    world,       \* the coordinator's DataMap (world-level data)
    frame,       \* the event loop's frame: its position, the DataMap and buffer it holds
    produced     \* per item, what the tiles' own Ticks and Transactions added to buffers

vars == <<tiles, tick_count, running, mailbox, handled, asker, data,
          undo_steps, run, map_name, file, known, panicked, before, linker,
          transactions, closing, saving, asking,
          transaction_log, world, frame, produced>>

\* the undo history and its observer
undoVars == <<undo_steps, run>>
\* persistence: the disk, the configuration, the save's starting point
diskVars == <<map_name, file, known, panicked, before>>
\* the transaction log, the world-level data and the frame that shows them
guiVars == <<transaction_log, world, frame, produced>>
\* the event loop beside on_link_tile, and who waits for whom
loopVars == <<closing, saving, asking, guiVars>>
\* what the coordinator of game.rs does not have
beyondGame == <<undoVars, diskVars, linker, transactions, loopVars>>

\* ------------------------------------------------------------- the Map
\* HashMap::get
Get(map, coord) == IF coord \in DOMAIN map THEN Some(map[coord]) ELSE None

\* HashMap::insert
Insert(map, coord, v) ==
    [c \in (DOMAIN map) \cup {coord} |-> IF c = coord THEN v ELSE map[c]]

\* HashMap::remove_entry
RemoveEntry(map, coord) == [c \in (DOMAIN map) \ {coord} |-> map[c]]

\* the actors a map refers to
ActorsOf(map) == {map[c].actor : c \in DOMAIN map}

\* a handled message: what it was, what the map held at its coordinate when
\* it arrived (old), what was told to its sender (reply) and what the
\* handler met (note): for a GetTile the type of the PlaceTile for the same
\* coordinate handled right before it, for an Undo the step it popped, for a
\* LoadMap the file it opened, for a PlaceTile the messages the actor it
\* stopped had not processed
Msg(type, coord, id, old, reply, note) ==
    [type |-> type, coord |-> coord, id |-> id, old |-> old, reply |-> reply,
     note |-> note]
NoMsg == Msg("None", 0, NoneId, None, None, None)
\* the asker's query is held by "game" (the coordinator's mailbox), by
\* "tile" (the mailbox of actor `tile`) or by "nobody"
IdleAsker == [state |-> "idle", coord |-> 0, held |-> "nobody", tile |-> 0]
\* no run of recorded placements is being observed
NoRun == [phase |-> "idle", base |-> <<>>, pending |-> 0, pushed |-> 0]

\* on_link_tile is not running; last is the request it completed before
IdleLinker == [pc |-> "idle", at |-> 0, source |-> 0, entity |-> 0, old |-> None,
               last |-> None]

\* Data::default(): a new tile actor has no target, script, items or link
DefaultEntity ==
    [target |-> None, script |-> None, inventory |-> <<>>, link |-> None,
     amount |-> None]
\* map names
MapNames == {"test", "main_menu"}
\* ids of scripts and items of the configuration
ScriptIds == {"smelt", "mine"}
ItemIds == {"ore", "ingot"}
AllIds == TileIds \cup ScriptIds \cup ItemIds

\* DataMap::default(): no key has a value
NoData == <<>>

\* between two frames the event loop holds no DataMap and no buffer
NoFrame == [pc |-> "idle", game_data |-> NoData, entity |-> 0, buffer |-> <<>>]

\* Map::save is not running
NotSaving == [at |-> 0, query |-> "none", left |-> {}, got |-> <<>>]

\* the window is open: the timer ticks, no final save was made
NotClosing == [pc |-> "open", ticking |-> TRUE, saved |-> FALSE, answered |-> {}]

\* a new process with the full configuration, an empty map and no map files
InitCommon ==
    /\ tick_count = 0
    /\ mailbox = [a \in ActorIds |-> <<>>]
    /\ handled = NoMsg
    /\ asker = IdleAsker
    /\ undo_steps = <<>>
    /\ run = NoRun
    /\ map_name = "test"
    /\ file = [n \in MapNames |-> [kind |-> "missing", records |-> <<>>]]
    /\ known = AllIds
    /\ panicked = FALSE
    /\ before = <<>>
    /\ linker = IdleLinker
    /\ transactions = <<>>
    /\ closing = NotClosing
    /\ saving = NotSaving
    /\ asking = {}
    /\ transaction_log = <<>>
    /\ world = NoData
    /\ frame = NoFrame
    /\ produced = [item \in ItemIds |-> 0]

Init ==
    /\ InitCommon
    /\ data = [a \in ActorIds |-> DefaultEntity]
    /\ running = {}
    /\ tiles = <<>>

\* ------------------------------------------------- Game::recv, PlaceTile
\* (a handler that does not stop the old tile, for comparison)
StopTile_NotStopped(old) == running

\* ctx.system.stop(tile): the actor stops, what its mailbox held is never
\* processed
StopTile(old) == running \ {t.actor : t \in old}

\* the handler without its remove_entry branch
PlacedTiles_NoRemove(map, coord, id, none, actor) ==
    IF id = none
    THEN map
    ELSE Insert(map, coord, [id |-> id, actor |-> actor])

\* the handler treating a placement on an occupied coordinate as a removal
PlacedTiles_Toggle(map, coord, id, none, actor) ==
    IF id = none \/ coord \in DOMAIN map
    THEN RemoveEntry(map, coord)
    ELSE Insert(map, coord, [id |-> id, actor |-> actor])

\* the map after the handler: remove_entry for the none type, insert of a
\* fresh actor otherwise
PlacedTiles(map, coord, id, none, actor) ==
    IF id = none
    THEN RemoveEntry(map, coord)
    ELSE Insert(map, coord, [id |-> id, actor |-> actor])

\* actor_of_args(Uuid::new_v4()): an actor under a name no running actor has
NewActor == CHOOSE a \in ActorIds \ running : \A b \in ActorIds \ running : a <= b

\* (a handler whose removal leaves the tile's actor running, for comparison)
PlaceCore_RemovalKeepsActor(coord, id, none) ==
    LET old == Get(tiles, coord)
        actor == NewActor
    IN  /\ tiles' = PlacedTiles(tiles, coord, id, none, actor)
        /\ running' = IF id = none THEN running
                      ELSE StopTile(old) \cup {actor}
        /\ mailbox' = [a \in ActorIds |->
                         IF id # none /\ a \in {t.actor : t \in old}
                         THEN <<>> ELSE mailbox[a]]
        /\ asker' = asker
        /\ data' = IF id = none THEN data ELSE [data EXCEPT ![actor] = DefaultEntity]

\* what the handler does to the map and to the tile actors
PlaceCore(coord, id, none) ==
    LET old == Get(tiles, coord)
        actor == NewActor
    IN  /\ tiles' = PlacedTiles(tiles, coord, id, none, actor)
        /\ running' = IF id = none THEN StopTile(old)
                      ELSE StopTile(old) \cup {actor}
        /\ mailbox' = [a \in ActorIds |->
                         IF a \in {t.actor : t \in old} THEN <<>> ELSE mailbox[a]]
        /\ asker' = IF asker.held = "tile" /\ asker.tile \in {t.actor : t \in old}
                    THEN [asker EXCEPT !.held = "nobody", !.tile = 0]
                    ELSE asker
        /\ data' = IF id = none THEN data ELSE [data EXCEPT ![actor] = DefaultEntity]

PlaceTile(coord, id, none) ==
    /\ PlaceCore(coord, id, none)
    /\ handled' = Msg("PlaceTile", coord, id, Get(tiles, coord), None,
                       {mailbox[t.actor] : t \in Get(tiles, coord)})
    /\ UNCHANGED <<tick_count, beyondGame>>

\* --------------------------------------------------- Game::recv, GetTile
GotTile(coord) ==
    Msg("GetTile", coord, NoneId, None, Get(tiles, coord),
        IF handled.type = "PlaceTile" /\ handled.coord = coord
        THEN Some(handled.id) ELSE None)

GetTile(coord) ==
    /\ handled' = GotTile(coord)
    /\ UNCHANGED <<tiles, tick_count, running, mailbox, asker, data, beyondGame>>

\* ------------------------------------------- Game::recv, RenderInfoRequest
\* Map::render_info: one instance per entry of the tile table
RenderInfo(map) == {<<c, map[c].id>> : c \in DOMAIN map}

\* (a handler that waits until every tile has emptied its mailbox, for
\* comparison)
RenderInfoRequest_WaitsForTiles ==
    /\ \A a \in ActorsOf(tiles) : mailbox[a] = <<>>
    /\ handled' = Msg("RenderInfoRequest", 0, NoneId, None, RenderInfo(tiles), None)
    /\ UNCHANGED <<tiles, tick_count, running, mailbox, asker, data, beyondGame>>

RenderInfoRequest ==
    /\ handled' = Msg("RenderInfoRequest", 0, NoneId, None, RenderInfo(tiles), None)
    /\ UNCHANGED <<tiles, tick_count, running, mailbox, asker, data, beyondGame>>

\* ------------------------------------------------ Game::tick, inner_tick
\* (a Tick that carries the count after the increment, for comparison)
TickMsg_AfterIncrement(n) == [type |-> "Tick", tick_count |-> (n + 1) % (2 ^ TickBits)]

\* TileMsg::Tick { init_data, tick_count }
TickMsg(n) == [type |-> "Tick", tick_count |-> n]
QueryMsg == [type |-> "GetDataValue", tick_count |-> 0]
\* GetDataValue(link, reply) of on_link_tile
LinkQuery == [type |-> "GetDataValue", reply |-> "on_link_tile"]

\* (usize::saturating_add(1), for comparison)
OverflowingAdd1_Saturating(n) == IF n = 2 ^ TickBits - 1 THEN n ELSE n + 1

\* usize::overflowing_add(1).0
OverflowingAdd1(n) == (n + 1) % (2 ^ TickBits)

\* a mailbox that hands out the newest message first (for comparison)
Tell_NewestFirst(box, actors, msg) ==
    [a \in ActorIds |-> IF a \in actors /\ a \in running
                        THEN <<msg>> \o box[a] ELSE box[a]]

\* tile.tell(msg): the message joins the mailbox of a running actor and is
\* dropped (dead letters) for a stopped one
Tell(box, actors, msg) ==
    [a \in ActorIds |-> IF a \in actors /\ a \in running
                        THEN Append(box[a], msg) ELSE box[a]]

\* Game::inner_tick: every tile of the map is told the count, then the
\* count advances; the tiles' mailboxes have room for the message
InnerTickWithin(room) ==
    /\ \A a \in ActorsOf(tiles) : Len(mailbox[a]) < room
    /\ mailbox' = Tell(mailbox, ActorsOf(tiles), TickMsg(tick_count))
    /\ tick_count' = OverflowingAdd1(tick_count)

InnerTick == InnerTickWithin(MaxMailbox)

\* Game::tick: inner_tick, then a warning when it took as long as
\* MAX_ALLOWED_TICK_INTERVAL or longer (slow)
TickWithin(room) ==
    /\ InnerTickWithin(room)
    /\ \E slow \in BOOLEAN :
          handled' = Msg("Tick", 0, NoneId, None, None, Some([warned |-> slow]))
    /\ UNCHANGED <<tiles, running, asker, data, beyondGame>>

Tick == TickWithin(MaxMailbox)

\* --------------------------------------------- Game::recv, SendMsgToTile
\* an external caller asks the coordinator: block_on(ask(sys, &game,
\* SendMsgToTile(coord, GetDataValue("link")))) and waits for the answer
AskSendMsgToTile(coord) ==
    /\ asker.state = "idle"
    /\ asker' = [state |-> "waiting", coord |-> coord, held |-> "game", tile |-> 0]
    /\ UNCHANGED <<tiles, tick_count, running, mailbox, handled, data, beyondGame>>

\* where the forwarded query is after the handler ran: in the tile's
\* mailbox when the coordinate holds a tile, nowhere otherwise
Forwarded(ask, target) ==
    IF target = None
    THEN [ask EXCEPT !.held = "nobody"]
    ELSE [ask EXCEPT !.held = "tile", !.tile = (CHOOSE t \in target : TRUE).actor]

SendMsgToTile ==
    LET target == Get(tiles, asker.coord)
    IN  /\ asker.state = "waiting" /\ asker.held = "game"
        /\ \A t \in target : Len(mailbox[t.actor]) < MaxMailbox
        /\ mailbox' = Tell(mailbox, {t.actor : t \in target}, QueryMsg)
        /\ asker' = Forwarded(asker, target)
        /\ handled' = Msg("SendMsgToTile", asker.coord, NoneId, target, None, None)
        /\ UNCHANGED <<tiles, tick_count, running, data, beyondGame>>

\* ------------------------------------------- the tile's inventory
\* the count of an item: an item that was never stored counts zero
Amount(inventory, k) == IF k \in DOMAIN inventory THEN inventory[k] ELSE 0

\* the inventory with the count of k set to n
WithAmount(inventory, k, n) ==
    [i \in (DOMAIN inventory) \cup {k} |-> IF i = k THEN n ELSE inventory[i]]

Min(x, y) == IF x <= y THEN x ELSE y

\* (an add that stores m in place of the count, for comparison)
Add_Replaces(inventory, k, m) == WithAmount(inventory, k, Min(InventoryCap, m))

\* Inventory::add: the count grows by m, capped at the capacity
Add(inventory, k, m) ==
    WithAmount(inventory, k, Min(InventoryCap, Amount(inventory, k) + m))

\* (a take that refuses when less than m is there, for comparison)
Take_AllOrNothing(inventory, k, m) ==
    IF m <= Amount(inventory, k) /\ Amount(inventory, k) > 0
    THEN [taken |-> Some(m),
          inventory |-> WithAmount(inventory, k, Amount(inventory, k) - m)]
    ELSE [taken |-> None, inventory |-> inventory]

\* Inventory::take -> Option<amount>: nothing when nothing of k is there,
\* otherwise the amount actually removed, at most what is there; and the
\* inventory it leaves
Take(inventory, k, m) ==
    LET taken == Min(m, Amount(inventory, k))
    IN  IF Amount(inventory, k) = 0
        THEN [taken |-> None, inventory |-> inventory]
        ELSE [taken |-> Some(taken),
              inventory |-> WithAmount(inventory, k, Amount(inventory, k) - taken)]

\* ------------------------------------------------------- the tile actor
\* the keys of the DataMap that hold one optional value
DataKeys == {"target", "link", "amount"}

\* GetDataValue(key) -> Option<Data>
GetDataValue(entity, key) == entity[key]

\* (a tile that takes a falsy value for no value, for comparison)
TileHandle_FalsyUnsets(entity, msg) ==
    CASE msg.type = "SetDataValue" ->
            [entity EXCEPT ![msg.key] = IF msg.value = 0 THEN None ELSE Some(msg.value)]
      [] msg.type = "RemoveData" -> [entity EXCEPT ![msg.key] = None]
      [] OTHER -> entity

\* what a message does to the tile's own state: SetTarget, SetScript and
\* SetData store their value, SetDataValue(key, value) and RemoveData(key)
\* set and clear the value of the key, a Transaction adds the item,
\* everything else leaves the state as it is
TileHandle(entity, msg) ==
    CASE msg.type = "SetTarget" -> [entity EXCEPT !.target = msg.value]
      [] msg.type = "SetScript" -> [entity EXCEPT !.script = Some(msg.value)]
      [] msg.type = "SetData" -> [entity EXCEPT !.inventory = msg.value]
      [] msg.type = "SetDataValue" ->
            IF msg.key = "buffer" THEN [entity EXCEPT !.inventory = msg.value]
            ELSE [entity EXCEPT ![msg.key] = Some(msg.value)]
      [] msg.type = "RemoveData" -> [entity EXCEPT ![msg.key] = None]
      [] msg.type = "Transaction" ->
            [entity EXCEPT !.inventory = Add(@, msg.item, 1)]
      [] OTHER -> entity

\* ---------------------------------------------- the tile's script
\* Script::instructions of each script: what it consumes and what it yields
Instructions(script) ==
    CASE script = "smelt" -> [input |-> Some("ore"), output |-> Some("ingot")]
      [] script = "mine" -> [input |-> None, output |-> Some("ore")]

\* the tile types that run their script on a Tick
Producers == {"miner"}

\* the coordinate of the map that holds an actor
CoordOf(map, a) == CHOOSE c \in DOMAIN map : map[c].actor = a

\* (a tile that runs its script without looking for the input, for
\* comparison)
Execution_InputUnchecked(map, coord, entity) ==
    IF map[coord].id \notin Producers \/ entity.script = None
    THEN None
    ELSE LET ins == Instructions(CHOOSE s \in entity.script : TRUE)
             fed == TRUE
             there == {coord + t : t \in entity.target} \cap DOMAIN map
         IN  IF ~fed \/ ins.output = None \/ (entity.target # None /\ there = {})
             THEN None
             ELSE Some([input |-> ins.input,
                        output |-> CHOOSE o \in ins.output : TRUE,
                        to |-> {map[d].actor : d \in there}])

\* what a Tick makes a tile do: nothing (no script, an input that is not in
\* the buffer, a target with no tile), or one execution of the script that
\* consumes `input` and hands `output` to the actors `to` (to its own
\* buffer when the tile has no target)
Execution(map, coord, entity) ==
    IF map[coord].id \notin Producers \/ entity.script = None
    THEN None
    ELSE LET ins == Instructions(CHOOSE s \in entity.script : TRUE)
             fed == \A i \in ins.input : Amount(entity.inventory, i) >= 1
             there == {coord + t : t \in entity.target} \cap DOMAIN map
         IN  IF ~fed \/ ins.output = None \/ (entity.target # None /\ there = {})
             THEN None
             ELSE Some([input |-> ins.input,
                        output |-> CHOOSE o \in ins.output : TRUE,
                        to |-> {map[d].actor : d \in there}])

\* the tile's own state after a Tick
AfterTick(entity, execution) ==
    IF execution = None
    THEN entity
    ELSE LET e == CHOOSE x \in execution : TRUE
             fed == IF e.input = None
                    THEN entity.inventory
                    ELSE Take(entity.inventory, CHOOSE i \in e.input : TRUE, 1).inventory
         IN  [entity EXCEPT !.inventory = IF e.to = {} THEN Add(fed, e.output, 1)
                                          ELSE fed]

\* the item handed to the tile of the target
Transaction(item, source) == [type |-> "Transaction", item |-> item, source |-> source]

\* a tile accepts an item while its inventory has room for it
Accepts(entity, msg) ==
    msg.type = "Transaction" /\ Amount(entity.inventory, msg.item) < InventoryCap

\* (a log that keeps one record per pair, for comparison)
Recorded_OncePerPair(log, key) ==
    [k \in (DOMAIN log) \cup {key} |-> 1]

\* one more TransactionRecord under the key (source, destination)
Recorded(log, key) ==
    [k \in (DOMAIN log) \cup {key} |-> IF k \in DOMAIN log THEN
                                          (IF k = key THEN log[k] + 1 ELSE log[k])
                                       ELSE 1]

\* a running tile actor takes the next message of its mailbox: a Tick runs
\* the script, a Transaction is stored and recorded, a query is answered to
\* its sender
TileTake(a) ==
    /\ a \in running
    /\ mailbox[a] # <<>>
    /\ LET msg == Head(mailbox[a])
           execution == IF msg.type = "Tick" /\ a \in ActorsOf(tiles)
                        THEN Execution(tiles, CoordOf(tiles, a), data[a])
                        ELSE None
       IN  /\ mailbox' = [b \in ActorIds |->
                            LET rest == IF b = a THEN Tail(mailbox[a]) ELSE mailbox[b]
                            IN  IF \E e \in execution : b \in e.to
                                THEN Append(rest, Transaction((CHOOSE e \in execution : TRUE).output,
                                                              CoordOf(tiles, a)))
                                ELSE rest]
           /\ data' = [data EXCEPT ![a] = IF msg.type = "Tick"
                                          THEN AfterTick(@, execution)
                                          ELSE TileHandle(@, msg)]
           /\ transactions' = IF Accepts(data[a], msg) /\ a \in ActorsOf(tiles)
                              THEN Recorded(transactions, <<msg.source, CoordOf(tiles, a)>>)
                              ELSE transactions
    /\ asker' = IF Head(mailbox[a]) = QueryMsg
                THEN [asker EXCEPT !.state = "answered", !.held = "nobody", !.tile = 0]
                ELSE asker
    /\ linker' = IF Head(mailbox[a]) = LinkQuery
                 THEN [linker EXCEPT !.pc = "answered", !.old = GetDataValue(data[a], "link")]
                 ELSE linker
    /\ UNCHANGED <<tiles, tick_count, running, handled, undoVars, diskVars>>

\* a tile actor's step while nobody waits for anybody
TileRecv(a) == TileTake(a) /\ UNCHANGED loopVars

\* the caller got its answer and goes on
AskReturn ==
    /\ asker.state = "answered"
    /\ asker' = IdleAsker
    /\ UNCHANGED <<tiles, tick_count, running, mailbox, handled, data, beyondGame>>

Next ==
    \/ \E c \in TileCoord, id \in TileIds : PlaceTile(c, id, NoneId)
    \/ \E c \in TileCoord : GetTile(c)
    \/ RenderInfoRequest
    \/ Tick
    \/ \E c \in TileCoord : AskSendMsgToTile(c)
    \/ SendMsgToTile
    \/ \E a \in ActorIds : TileRecv(a)
    \/ AskReturn

Spec == Init /\ [][Next]_vars

\* ====================================================================
\* The coordinator with recorded placements, replies and Undo
\* (GameMsg::PlaceTile { coord, id, record, reply, .. }, GameMsg::Undo)
\* ====================================================================

\* the type a coordinate holds, the none type for an empty one
TypeAt(map, coord) == IF coord \in DOMAIN map THEN map[coord].id ELSE NoneId

\* the coordinate-to-type map
Types(map) == [c \in DOMAIN map |-> map[c].id]

\* longest run of recorded placements the observer follows
MaxRun == UndoBound + 1

\* a reply that never says Ignored
PlaceTileResponse_NeverIgnored(oldId, id) ==
    IF id = NoneId THEN "Removed" ELSE "Placed"

\* PlaceTileResponse: Ignored when the request changes nothing, Removed for
\* the none type, Placed otherwise
PlaceTileResponse(oldId, id) ==
    IF oldId = id THEN "Ignored"
    ELSE IF id = NoneId THEN "Removed" ELSE "Placed"

\* a history that grows without bound
Push_Unbounded(steps, step) == Append(steps, step)

\* a full history that keeps what it has and loses the new entry
Push_KeepsOldest(steps, step) ==
    IF Len(steps) < UndoBound THEN Append(steps, step) ELSE steps

\* push onto the bounded history: a full history loses its oldest entry
Push(steps, step) ==
    IF Len(steps) < UndoBound
    THEN Append(steps, step)
    ELSE Append(Tail(steps), step)

\* the observer after a placement that changed the map
RunAfterPlace(record) ==
    IF run.phase = "off" THEN run
    ELSE IF ~record \/ (run.phase = "placing" /\ run.pushed = MaxRun)
    THEN NoRun
    ELSE IF run.phase = "placing"
    THEN [run EXCEPT !.pending = @ + 1, !.pushed = @ + 1]
    ELSE [phase |-> "placing", base |-> Types(tiles), pending |-> 1, pushed |-> 1]

\* the observer after an Undo
RunAfterUndo ==
    IF run.phase = "off" THEN run
    ELSE IF run.phase \in {"placing", "undoing"}
    THEN [run EXCEPT !.pending = @ - 1,
                     !.phase = IF run.pending = 1 THEN "done" ELSE "undoing"]
    ELSE NoRun

\* the handler of a placement: nothing happens when the reply is Ignored,
\* otherwise the map and the actors change as in PlaceCore and a recorded
\* placement pushes its inverse
Place(coord, id, record) ==
    LET oldId == TypeAt(tiles, coord)
        response == PlaceTileResponse(oldId, id)
    IN  /\ handled' = Msg("PlaceTile", coord, id, Get(tiles, coord), Some(response), None)
        /\ IF response = "Ignored"
           THEN UNCHANGED <<tiles, running, mailbox, asker, data, undo_steps, run>>
           ELSE /\ PlaceCore(coord, id, NoneId)
                /\ undo_steps' = IF record
                                 THEN Push(undo_steps, [coord |-> coord, id |-> oldId])
                                 ELSE undo_steps
                /\ run' = RunAfterPlace(record)

PlaceTileRecord(coord, id, record) ==
    /\ Place(coord, id, record)
    /\ UNCHANGED <<tick_count, diskVars, linker, transactions, loopVars>>

\* an Undo with nothing recorded that clears the map
UndoEmpty_Clears ==
    /\ tiles' = <<>>
    /\ running' = {}
    /\ UNCHANGED <<mailbox, asker, data, undo_steps>>

\* Undo with an empty history: nothing happens
UndoEmpty == UNCHANGED <<tiles, running, mailbox, asker, data, undo_steps>>

\* Undo: pop the newest recorded step and apply its inverse as a placement
\* that is not recorded
Undo ==
    /\ IF undo_steps = <<>>
       THEN /\ UndoEmpty
            /\ handled' = Msg("Undo", 0, NoneId, None, None, None)
       ELSE LET step == undo_steps[Len(undo_steps)]
            IN  /\ handled' = Msg("Undo", step.coord, step.id, Get(tiles, step.coord),
                                  None, Some(step))
                /\ IF TypeAt(tiles, step.coord) = step.id
                   THEN UNCHANGED <<tiles, running, mailbox, asker, data>>
                   ELSE PlaceCore(step.coord, step.id, NoneId)
                /\ undo_steps' = SubSeq(undo_steps, 1, Len(undo_steps) - 1)
    /\ run' = RunAfterUndo
    /\ UNCHANGED <<tick_count, diskVars, linker, transactions, loopVars>>

NextUndo ==
    \/ \E c \in TileCoord, id \in TileIds, record \in BOOLEAN : PlaceTileRecord(c, id, record)
    \/ Undo

SpecUndo == Init /\ [][NextUndo]_vars

\* the coordinator of game.rs, whose placements are not recorded, with Undo:
\* ticks and tile messages go on around an history that stays empty
NextTickUndo ==
    \/ Next
    \/ Undo

SpecTickUndo == Init /\ [][NextTickUndo]_vars

\* ====================================================================
\* Persistence: Map::save and Map::load, the map files, the configuration
\* ====================================================================

\* the coordinates of saved maps
MapCoord == 0 .. NumCoords

\* Interner::resolve: the string an Id stands for, character by character
Resolve(id) ==
    <<"a", ":">> \o
    << CASE id = "none" -> "e"
         [] id = "node" -> "n"
         [] id = "miner" -> "m"
         [] id = "smelt" -> "s"
         [] id = "mine" -> "p"
         [] id = "ore" -> "o"
         [] id = "ingot" -> "i" >>

\* str::split_once: the parts before and after the first ch
SplitOnce(str, ch) ==
    LET at == CHOOSE i \in 1 .. Len(str) :
                  str[i] = ch /\ \A j \in 1 .. (i - 1) : str[j] # ch
    IN  <<SubSeq(str, 1, at - 1), SubSeq(str, at + 1, Len(str))>>

\* IdRaw::parse: namespace and name of "namespace:name"
IdRawParse(str) ==
    LET parts == SplitOnce(str, ":")
    IN  [namespace |-> parts[1], name |-> parts[2]]

\* IdRaw::to_string
IdRawToString(raw) == raw.namespace \o <<":">> \o raw.name

\* Interner::get: the Id of a string the configuration knows
InternerGet(interner, str) == {id \in interner : Resolve(id) = str}

\* InventoryRaw::from_inventory: the items by their raw ids
FromInventory(inventory) ==
    {<<IdRawParse(Resolve(item)), inventory[item]>> : item \in DOMAIN inventory}

\* InventoryRaw::to_inventory: the items the configuration knows
ToInventory(raw, interner) ==
    LET items == {item \in interner : \E r \in raw : IdRawToString(r[1]) = Resolve(item)}
    IN  [item \in items |->
            (CHOOSE r \in raw : IdRawToString(r[1]) = Resolve(item))[2]]

\* a tile's state once it has taken the messages queued before an ask
RECURSIVE Settle(_, _)
Settle(entity, msgs) ==
    IF msgs = <<>> THEN entity
    ELSE Settle(TileHandle(entity, Head(msgs)), Tail(msgs))

Settled(dat, box) == [a \in ActorIds |-> Settle(dat[a], box[a])]

\* TileData(id, tile_state, data, target, script) of a tile the way
\* Map::save asks it from the tile: GetTarget, GetScript, GetData
TileData(raw_id, entity) ==
    [id |-> raw_id,
     inventory |-> FromInventory(entity.inventory),
     target |-> entity.target,
     script |-> {IdRawParse(Resolve(script)) : script \in entity.script}]

\* the table Map::save writes
SaveRecords(map, dat) ==
    [coord \in DOMAIN map |->
        TileData(IdRawParse(Resolve(map[coord].id)), dat[map[coord].actor])]

\* Map::save with a maps directory that does or does not let the file be
\* created: File::create(path).unwrap() panics before any tile is asked;
\* otherwise every tile answers the asks after the messages it had queued
\* and the file named after the map is replaced
SaveMapTo(writable) ==
    /\ ~panicked
    /\ IF writable
       THEN /\ data' = [a \in ActorIds |-> IF a \in ActorsOf(tiles)
                                            THEN Settled(data, mailbox)[a] ELSE data[a]]
            /\ mailbox' = [a \in ActorIds |-> IF a \in ActorsOf(tiles) THEN <<>> ELSE mailbox[a]]
            /\ file' = [file EXCEPT ![map_name] =
                           [kind |-> "valid", records |-> SaveRecords(tiles, data')]]
            /\ before' = [coord \in DOMAIN tiles |->
                             [id |-> tiles[coord].id, entity |-> data'[tiles[coord].actor]]]
            /\ handled' = Msg("SaveMap", 0, NoneId, None, None, None)
            /\ UNCHANGED panicked
       ELSE /\ panicked' = TRUE
            /\ handled' = Msg("SaveMap", 0, NoneId, None, None, Some([failed |-> "File::create"]))
            /\ UNCHANGED <<data, mailbox, file, before>>
    /\ UNCHANGED <<tiles, tick_count, running, asker, undoVars, linker, transactions, map_name, known>>

\* GameMsg::SaveMap where the maps directory can be written
SaveMap == SaveMapTo(TRUE) /\ UNCHANGED loopVars

\* a load that gives up on the whole file at the first unknown type
LoadedCoords_AllOrNothing(records, interner) ==
    {coord \in DOMAIN records :
        \A other \in DOMAIN records :
            InternerGet(interner, IdRawToString(records[other].id)) # None}

\* the records Map::load keeps: those whose type the configuration knows
LoadedCoords(records, interner) ==
    {coord \in DOMAIN records :
        InternerGet(interner, IdRawToString(records[coord].id)) # None}

\* Game::new_tile names the actor of a loaded tile after its coordinate
ActorFor(coord) == coord + 1

\* what Map::load sends to the tile of a record: SetTarget, SetScript when
\* the record has a script the configuration knows, SetData
LoadMsgs(record, interner) ==
    LET scripts == UNION {InternerGet(interner, IdRawToString(script)) :
                             script \in record.script}
    IN  <<[type |-> "SetTarget", value |-> record.target]>>
        \o (IF scripts = {} THEN <<>>
            ELSE <<[type |-> "SetScript", value |-> CHOOSE script \in scripts : TRUE]>>)
        \o <<[type |-> "SetData", value |-> ToInventory(record.inventory, interner)]>>

\* Map::new_empty installed: no tiles, the old tile actors stopped
InstallEmpty ==
    /\ tiles' = <<>>
    /\ running' = {}
    /\ mailbox' = [a \in ActorIds |-> <<>>]
    /\ data' = [a \in ActorIds |-> DefaultEntity]

\* GameMsg::LoadMap with Map::load: no file gives the empty map, a file
\* that does not decode panics in unwrap(), a decoded table gives a tile
\* actor per kept record
LoadMap(name) ==
    LET found == file[name]
        keep == LoadedCoords(found.records, known)
    IN  /\ ~panicked
        /\ handled' = Msg("LoadMap", 0, NoneId, None, None,
                          Some([name |-> name, file |-> found]))
        /\ CASE found.kind = "missing" ->
                    /\ InstallEmpty
                    /\ map_name' = name
                    /\ UNCHANGED panicked
             [] found.kind = "corrupt" ->
                    /\ panicked' = TRUE
                    /\ UNCHANGED <<tiles, running, mailbox, data, map_name>>
             [] found.kind = "valid" ->
                    /\ tiles' = [coord \in keep |->
                                    [id |-> CHOOSE id \in InternerGet(known,
                                                IdRawToString(found.records[coord].id)) : TRUE,
                                     actor |-> ActorFor(coord)]]
                    /\ running' = {ActorFor(coord) : coord \in keep}
                    /\ mailbox' = [a \in ActorIds |->
                                      IF \E coord \in keep : ActorFor(coord) = a
                                      THEN LoadMsgs(found.records[a - 1], known)
                                      ELSE <<>>]
                    /\ data' = [a \in ActorIds |-> DefaultEntity]
                    /\ map_name' = name
                    /\ UNCHANGED panicked
        /\ UNCHANGED <<tick_count, asker, undoVars, loopVars, linker, transactions, file, known, before>>

\* the file of a map is damaged on disk
CorruptFile(name) ==
    /\ file[name].kind # "corrupt"
    /\ file' = [file EXCEPT ![name] = [kind |-> "corrupt", records |-> <<>>]]
    /\ UNCHANGED <<tiles, tick_count, running, mailbox, handled, asker, data,
                   undoVars, loopVars, linker, transactions, map_name, known, panicked, before>>

\* the configurations the game is started with
Configs == {AllIds, AllIds \ {"miner", "smelt"}}

\* the game is started again: a new process with an empty map
Restart(config) ==
    /\ InstallEmpty
    /\ known' = config
    /\ panicked' = FALSE
    /\ map_name' = "test"
    /\ tick_count' = 0
    /\ handled' = NoMsg
    /\ UNCHANGED <<asker, undoVars, loopVars, linker, transactions, file, before>>

\* a tile with a target, a script, items and a link
FullEntity ==
    [target |-> Some(0), script |-> Some("smelt"),
     inventory |-> [item \in {"ore"} |-> 1], link |-> Some(0), amount |-> None]

EntityStates == {DefaultEntity, FullEntity}

\* a game that holds some map over the coordinates in region, every tile
\* in some state
InitWith(region) ==
    /\ InitCommon
    /\ \E m \in UNION {[d -> TileIds \ {NoneId}] : d \in SUBSET region} :
          tiles = [coord \in DOMAIN m |-> [id |-> m[coord], actor |-> ActorFor(coord)]]
    /\ running = ActorsOf(tiles)
    /\ data \in [ActorIds -> EntityStates]
    /\ \A a \in ActorIds \ running : data[a] = DefaultEntity

InitMap == InitWith(MapCoord)

NextMap ==
    \/ SaveMap
    \/ \E name \in MapNames : LoadMap(name)
    \/ \E name \in MapNames : CorruptFile(name)
    \/ \E config \in Configs : Restart(config)
    \/ \E a \in ActorIds : TileRecv(a)

SpecMap == InitMap /\ [][NextMap]_vars

\* ------------------------------------------- saving to a directory that
\* may refuse the file
NextSave ==
    \/ \E writable \in BOOLEAN : SaveMapTo(writable) /\ UNCHANGED loopVars
    \/ \E name \in MapNames : LoadMap(name)
    \/ \E config \in Configs : Restart(config)
    \/ \E a \in ActorIds : TileRecv(a)

SpecSave == InitMap /\ [][NextSave]_vars

\* ====================================================================
\* Linking: on_link_tile of the event loop and the tile it points at
\* ====================================================================

\* the tile types whose registry entry has the linked flag
Linkable == {"node"}

\* a request that always stores the link
LinkMsg_AlwaysSet(old, linking_tile) ==
    [type |-> "SetDataValue", key |-> "link", value |-> linking_tile]

\* on_link_tile: a tile that has a link is told to remove it, a tile that
\* has none is told to store the linking tile
LinkMsg(old, linking_tile) ==
    IF old # None
    THEN [type |-> "RemoveData", key |-> "link", value |-> 0]
    ELSE [type |-> "SetDataValue", key |-> "link", value |-> linking_tile]

\* on_link_tile up to its call of the tile: GetTile and GetTileEntity for
\* the coordinate pointed at, return when it is empty or its type is not
\* linkable, otherwise call the tile with GetDataValue(link) and wait
OnLinkTile(pointing_at, linking_tile) ==
    LET tile == Get(tiles, pointing_at)
    IN  /\ linker.pc = "idle"
        /\ \A t \in tile : Len(mailbox[t.actor]) < MaxMailbox
        /\ handled' = GotTile(pointing_at)
        /\ IF \E t \in tile : t.id \in Linkable
           THEN LET entity == (CHOOSE t \in tile : TRUE).actor
                IN  /\ mailbox' = Tell(mailbox, {entity}, LinkQuery)
                    /\ linker' = [linker EXCEPT !.pc = "calling", !.at = pointing_at,
                                                !.source = linking_tile,
                                                !.entity = entity, !.old = None]
           ELSE UNCHANGED <<mailbox, linker>>
        /\ UNCHANGED <<tiles, tick_count, running, asker, data, undoVars, diskVars,
                       transactions, loopVars>>

\* on_link_tile after the tile answered: send RemoveData or SetDataValue
LinkApply ==
    /\ linker.pc = "answered"
    /\ Len(mailbox[linker.entity]) < MaxMailbox
    /\ mailbox' = Tell(mailbox, {linker.entity}, LinkMsg(linker.old, linker.source))
    /\ linker' = [IdleLinker EXCEPT
                    !.last = Some([at |-> linker.at, source |-> linker.source,
                                   was |-> linker.old])]
    /\ UNCHANGED <<tiles, tick_count, running, handled, asker, data, undoVars, diskVars,
                   transactions, loopVars>>

InitLink == InitWith(TileCoord)

NextLink ==
    \/ \E pointing_at \in TileCoord, linking_tile \in MapCoord :
          OnLinkTile(pointing_at, linking_tile)
    \/ LinkApply
    \/ Tick
    \/ \E a \in ActorIds : TileRecv(a)

SpecLink == InitLink /\ [][NextLink]_vars

\* ====================================================================
\* The coordinator with MoveTiles (GameMsg::MoveTiles(coords, offset, record))
\* ====================================================================

\* the region tiles are moved in: a coordinate and its neighbour
MoveCoord == {0, 1}
\* the offsets a group of tiles is moved by
Offsets == {0 - 1, 0, 1}
\* the types placed in that region
MoveIds == {NoneId, "node"}

\* the observer of runs is not following
RunOff == [NoRun EXCEPT !.phase = "off"]

\* the coordinates of a group that hold a tile and stay in the region
Movable(map, coords, offset) ==
    {c \in coords : c \in DOMAIN map /\ (c + offset) \in MoveCoord}

\* the table after the move: every movable tile is re-keyed to its
\* destination, where it replaces what was there
MovedTiles(map, coords, offset) ==
    LET moved == Movable(map, coords, offset)
        dests == {c + offset : c \in moved}
    IN  [d \in (DOMAIN map \ moved) \cup dests |->
            IF d \in dests THEN map[d - offset] ELSE map[d]]

\* push the steps of a sequence, oldest first
RECURSIVE PushAll(_, _)
PushAll(steps, new) ==
    IF new = <<>> THEN steps
    ELSE PushAll(Push(steps, Head(new)), Tail(new))

\* the coordinates of a set in ascending order
RECURSIVE Ascending(_)
Ascending(coords) ==
    IF coords = {} THEN <<>>
    ELSE LET least == CHOOSE c \in coords : \A d \in coords : c <= d
         IN  <<least>> \o Ascending(coords \ {least})

\* the place/remove descriptors of a move: for every coordinate whose type
\* the move changes, the type it held before
MoveSteps(map, coords, offset) ==
    LET after == MovedTiles(map, coords, offset)
        changed == {c \in MoveCoord : TypeAt(after, c) # TypeAt(map, c)}
        order == Ascending(changed)
    IN  [i \in 1 .. Len(order) |-> [coord |-> order[i], id |-> TypeAt(map, order[i])]]

\* GameMsg::MoveTiles: the tiles of the group move by the offset, the actors
\* of the tiles they replace stop, a recorded move pushes its descriptors
MoveTiles(coords, offset, record) ==
    LET after == MovedTiles(tiles, coords, offset)
        stopped == ActorsOf(tiles) \ ActorsOf(after)
        steps == MoveSteps(tiles, coords, offset)
    IN  /\ tiles' = after
        /\ running' = running \ stopped
        /\ mailbox' = [a \in ActorIds |-> IF a \in stopped THEN <<>> ELSE mailbox[a]]
        /\ asker' = IF asker.held = "tile" /\ asker.tile \in stopped
                    THEN [asker EXCEPT !.held = "nobody", !.tile = 0]
                    ELSE asker
        /\ undo_steps' = IF record
                         THEN PushAll(undo_steps, steps)
                         ELSE undo_steps
        /\ run' = IF run.phase = "off" THEN run ELSE NoRun
        /\ handled' = Msg("MoveTiles", 0, NoneId, None, None,
                          Some([record |-> record, steps |-> steps]))
        /\ UNCHANGED <<tick_count, data, diskVars, linker, transactions, loopVars>>

\* an empty map, the observer of runs off
InitMove ==
    /\ tick_count = 0
    /\ mailbox = [a \in ActorIds |-> <<>>]
    /\ handled = NoMsg
    /\ asker = IdleAsker
    /\ undo_steps = <<>>
    /\ run = RunOff
    /\ map_name = "test"
    /\ file = [n \in MapNames |-> [kind |-> "missing", records |-> <<>>]]
    /\ known = AllIds
    /\ panicked = FALSE
    /\ before = <<>>
    /\ linker = IdleLinker
    /\ transactions = <<>>
    /\ closing = NotClosing
    /\ saving = NotSaving
    /\ asking = {}
    /\ transaction_log = <<>>
    /\ world = NoData
    /\ frame = NoFrame
    /\ produced = [item \in ItemIds |-> 0]
    /\ data = [a \in ActorIds |-> DefaultEntity]
    /\ running = {}
    /\ tiles = <<>>

NextMove ==
    \/ \E c \in MoveCoord, id \in MoveIds, record \in BOOLEAN : PlaceTileRecord(c, id, record)
    \/ \E coords \in SUBSET MoveCoord, offset \in Offsets, record \in BOOLEAN :
          MoveTiles(coords, offset, record)
    \/ Undo

SpecMove == InitMove /\ [][NextMove]_vars

\* ------------------------------------------ a producer and a storage
\* the producer's coordinate, the direction RIGHT and the storage next to it
ProducerCoord == 0
RIGHT == 1
StorageCoord == ProducerCoord + RIGHT

\* the ticks the production run counts before the counter would wrap
MaxTick == 2 ^ TickBits - 1

\* a miner at (0,0) with one of the scripts, with or without the target
\* RIGHT, with or without ore in its buffer, and an empty storage at (1,0)
InitProd ==
    /\ InitCommon
    /\ tiles = [c \in {ProducerCoord, StorageCoord} |->
                  [id |-> IF c = ProducerCoord THEN "miner" ELSE "node",
                   actor |-> ActorFor(c)]]
    /\ running = {ActorFor(ProducerCoord), ActorFor(StorageCoord)}
    /\ \E script \in ScriptIds, target \in {None, Some(RIGHT)}, ore \in 0 .. InventoryCap :
          data = [a \in ActorIds |->
                    IF a = ActorFor(ProducerCoord)
                    THEN [DefaultEntity EXCEPT
                            !.script = Some(script), !.target = target,
                            !.inventory = IF ore = 0 THEN <<>>
                                          ELSE [i \in {"ore"} |-> ore]]
                    ELSE DefaultEntity]

NextProd ==
    \/ tick_count < MaxTick /\ Tick
    \/ \E a \in ActorIds : TileRecv(a)

SpecProd == InitProd /\ [][NextProd]_vars

\* ------------------------------------------ loading while the game ticks
\* the most messages Map::load sends to one tile
LoadBurst == 3

\* a Tick of the timer while the messages of a load may still wait at the
\* tiles
TickAfterLoad == TickWithin(MaxMailbox + LoadBurst)

InitLoad == InitWith({0})

NextLoad ==
    \/ SaveMap
    \/ \E name \in MapNames : LoadMap(name)
    \/ tick_count < MaxTick /\ TickAfterLoad
    \/ \E a \in ActorIds : TileRecv(a)

SpecLoad == InitLoad /\ [][NextLoad]_vars

\* ====================================================================
\* Shutdown: shutdown_graceful of the event loop (bin/automancy/event.rs)
\* ====================================================================

\* setup.game.send_message(GameMsg::StopTicking): the message is in the
\* coordinator's mailbox, the event loop goes on to call SaveMap and blocks
CloseRequested ==
    /\ closing.pc = "open"
    /\ ~panicked
    /\ closing' = [closing EXCEPT !.pc = "sent"]
    /\ UNCHANGED <<tiles, tick_count, running, mailbox, handled, asker, data,
                   undoVars, diskVars, linker, transactions, saving, asking, guiVars>>

\* GameMsg::StopTicking handled: the timer's Ticks are no longer fanned out
StopTicking ==
    /\ closing.pc = "sent"
    /\ closing' = [closing EXCEPT !.pc = "saving", !.ticking = FALSE]
    /\ handled' = Msg("StopTicking", 0, NoneId, None, None, None)
    /\ UNCHANGED <<tiles, tick_count, running, mailbox, asker, data,
                   undoVars, diskVars, linker, transactions, saving, asking, guiVars>>

\* the SaveMap of block_on(setup.game.call(SaveMap)): Map::save asks every
\* tile and writes the file, or panics and takes the coordinator down
FinalSave(writable) ==
    /\ closing.pc = "saving"
    /\ SaveMapTo(writable)
    /\ closing' = IF writable
                  THEN [closing EXCEPT !.pc = "saved", !.saved = TRUE,
                                       !.answered = ActorsOf(tiles) \cap running]
                  ELSE [closing EXCEPT !.pc = "stopped"]
    /\ UNCHANGED <<saving, asking, guiVars>>

\* setup.game.stop(..) and block_on(game_handle): the coordinator stops
GameStop ==
    /\ closing.pc = "saved"
    /\ closing' = [closing EXCEPT !.pc = "stopped"]
    /\ handled' = Msg("Stop", 0, NoneId, None, None, None)
    /\ UNCHANGED <<tiles, tick_count, running, mailbox, asker, data,
                   undoVars, diskVars, linker, transactions, saving, asking, guiVars>>

\* target.exit(): the process ends and every actor with it
Exit ==
    /\ closing.pc = "stopped"
    /\ closing' = [closing EXCEPT !.pc = "exited"]
    /\ running' = {}
    /\ mailbox' = [a \in ActorIds |-> <<>>]
    /\ UNCHANGED <<tiles, tick_count, handled, asker, data,
                   undoVars, diskVars, linker, transactions, saving, asking, guiVars>>

\* a GameMsg::Tick of send_interval reaches the coordinator: fanned out
\* while the game is ticking, dropped after StopTicking
TimerTick ==
    /\ closing.pc \in {"open", "sent", "saving", "saved"}
    /\ ~panicked
    /\ IF closing.ticking
       THEN tick_count < MaxTick /\ Tick
       ELSE /\ handled.type # "Tick"
            /\ handled' = Msg("Tick", 0, NoneId, None, None, Some([dropped |-> TRUE]))
            /\ UNCHANGED <<tiles, tick_count, running, mailbox, asker, data, beyondGame>>

InitClose == InitWith({0})

NextClose ==
    \/ CloseRequested
    \/ StopTicking
    \/ \E writable \in BOOLEAN : FinalSave(writable)
    \/ GameStop
    \/ Exit
    \/ TimerTick
    \/ \E a \in ActorIds : TileRecv(a)

SpecClose == InitClose /\ [][NextClose]_vars

\* ====================================================================
\* Map::save step by step: the coordinator waits for each tile's answers
\* ====================================================================

\* the asks of Map::save, in the order it sends them to a tile
SaveQueries == <<"GetTarget", "GetScript", "GetData">>

\* ask(sys, tile, query): the query joins the tile's mailbox
Ask(box, a, query) == Tell(box, {a}, [type |-> query])

\* the SaveMap handler enters Map::save: the file is created, the first
\* tile is sent GetTarget and the handler waits in block_on
SaveBegin ==
    /\ ~panicked
    /\ saving.at = 0
    /\ \E a \in ActorsOf(tiles) :
          /\ Len(mailbox[a]) < MaxMailbox + 1
          /\ mailbox' = Ask(mailbox, a, SaveQueries[1])
          /\ saving' = [at |-> a, query |-> 1, left |-> ActorsOf(tiles) \ {a},
                        got |-> [b \in {a} |-> DefaultEntity]]
    /\ handled' = Msg("SaveMap", 0, NoneId, None, None, Some([waiting |-> TRUE]))
    /\ UNCHANGED <<tiles, tick_count, running, asker, data, undoVars, diskVars,
                   linker, transactions, closing, asking, guiVars>>

\* what a tile's answer to the query adds to what the save holds of it
Answered(entity, query, of) ==
    CASE query = 1 -> [entity EXCEPT !.target = of.target]
      [] query = 2 -> [entity EXCEPT !.script = of.script]
      [] query = 3 -> [entity EXCEPT !.inventory = of.inventory]

\* the table Map::save writes from the answers it got
AnsweredRecords(map, got) ==
    [coord \in {c \in DOMAIN map : map[c].actor \in DOMAIN got} |->
        TileData(IdRawParse(Resolve(map[coord].id)), got[map[coord].actor])]

\* the tile the save waits for takes the query from its mailbox and
\* answers; block_on returns and Map::save sends its next ask, or writes
\* the file after the last one
TileAnswers ==
    LET a == saving.at
        got == [saving.got EXCEPT ![a] = Answered(@, saving.query, data[a])]
    IN  /\ a # 0
        /\ a \in running \ asking
        /\ mailbox[a] # <<>>
        /\ Head(mailbox[a]).type = SaveQueries[saving.query]
        /\ LET rest == [mailbox EXCEPT ![a] = Tail(@)]
           IN  IF saving.query < Len(SaveQueries)
               THEN /\ mailbox' = Ask(rest, a, SaveQueries[saving.query + 1])
                    /\ saving' = [saving EXCEPT !.query = @ + 1, !.got = got]
                    /\ UNCHANGED <<file, before>>
               ELSE IF saving.left # {}
               THEN \E b \in saving.left :
                       /\ mailbox' = Ask(rest, b, SaveQueries[1])
                       /\ saving' = [at |-> b, query |-> 1, left |-> saving.left \ {b},
                                     got |-> [c \in DOMAIN got \cup {b} |->
                                                 IF c = b THEN DefaultEntity ELSE got[c]]]
                       /\ UNCHANGED <<file, before>>
               ELSE /\ mailbox' = rest
                    /\ saving' = NotSaving
                    /\ file' = [file EXCEPT ![map_name] =
                                   [kind |-> "valid", records |-> AnsweredRecords(tiles, got)]]
                    /\ before' = [coord \in DOMAIN tiles |->
                                     [id |-> tiles[coord].id, entity |-> data[tiles[coord].actor]]]
        /\ UNCHANGED <<tiles, tick_count, running, handled, asker, data, undoVars,
                       map_name, known, panicked, linker, transactions, closing, asking, guiVars>>

\* a tile that needs the tile at its target for its script
NeedsNeighbour(a) == data[a].script # None /\ data[a].target # None

\* a tile starts a Tick that needs its neighbour: it asks the coordinator
\* for the tile at its target and waits for the reply
TileAsksGame(a) ==
    /\ a \in running \ asking
    /\ mailbox[a] # <<>>
    /\ Head(mailbox[a]).type = "Tick"
    /\ NeedsNeighbour(a)
    /\ asking' = asking \cup {a}
    /\ UNCHANGED <<tiles, tick_count, running, mailbox, handled, asker, data,
                   undoVars, diskVars, linker, transactions, closing, saving, guiVars>>

\* the coordinator, not inside a handler, answers the tile; the tile goes
\* on with its Tick
GameAnswersTile(a) ==
    /\ a \in asking
    /\ saving.at = 0
    /\ TileTake(a)
    /\ asking' = asking \ {a}
    /\ UNCHANGED <<closing, saving, guiVars>>

\* a tile takes a message that needs nobody's reply
TileTakesOther(a) ==
    /\ a \notin asking
    /\ mailbox[a] # <<>>
    /\ Head(mailbox[a]).type \notin {SaveQueries[q] : q \in DOMAIN SaveQueries}
    /\ Head(mailbox[a]).type = "Tick" => ~NeedsNeighbour(a)
    /\ TileRecv(a)

InitWait == InitWith(TileCoord)

NextWait ==
    \/ SaveBegin
    \/ TileAnswers
    \/ saving.at = 0 /\ tick_count < MaxTick /\ Tick
    \/ \E a \in ActorIds : TileAsksGame(a)
    \/ \E a \in ActorIds : GameAnswersTile(a)
    \/ \E a \in ActorIds : TileTakesOther(a)

SpecWait == InitWait /\ [][NextWait]_vars

\* ====================================================================
\* The transaction log and the renderer that draws it
\* ====================================================================

\* a TransactionRecord with the time it has been in the log
TransactionRecord(source, coord) == [source |-> source, coord |-> coord, age |-> 0]

\* now.duration_since(instant) has reached the animation's duration
Elapsed(record) == record.age >= AnimationTicks

\* (a log that is handed out as it is, for comparison)
Pruned_KeepsAll(records) == records

\* the log without the records whose animation is over
Pruned(records) == SelectSeq(records, LAMBDA record : ~Elapsed(record))

\* a tile takes its next message; an accepted Transaction is also put in
\* the log with the time of its arrival
RecordingTileRecv(a) ==
    LET msg == Head(mailbox[a])
        accepted == Accepts(data[a], msg) /\ a \in ActorsOf(tiles)
    IN  /\ TileTake(a)
        /\ accepted => Len(transaction_log) < MaxLog
        /\ transaction_log' = IF accepted
                              THEN Append(transaction_log,
                                          TransactionRecord(msg.source, CoordOf(tiles, a)))
                              ELSE transaction_log
        /\ UNCHANGED <<closing, saving, asking, world, frame, produced>>

\* time passes: every record has been in the log one step longer
Elapse ==
    /\ \E i \in DOMAIN transaction_log : ~Elapsed(transaction_log[i])
    /\ transaction_log' = [i \in DOMAIN transaction_log |->
                              [transaction_log[i] EXCEPT !.age = @ + 1]]
    /\ UNCHANGED <<tiles, tick_count, running, mailbox, handled, asker, data,
                   undoVars, diskVars, linker, transactions, closing, saving, asking,
                   world, frame, produced>>

\* Renderer::render asks for the log and draws each record at
\* duration / ANIMATION_SPEED of its way; the log it is handed is pruned
GetRecordedTransactions ==
    /\ transaction_log' = Pruned(transaction_log)
    /\ handled' = Msg("GetRecordedTransactions", 0, NoneId, None,
                      Some(transaction_log'),
                      Some([pruned |-> Len(transaction_log) - Len(transaction_log')]))
    /\ UNCHANGED <<tiles, tick_count, running, mailbox, asker, data,
                   undoVars, diskVars, linker, transactions, closing, saving, asking,
                   world, frame, produced>>

NextLog ==
    \/ tick_count < MaxTick /\ Tick
    \/ \E a \in ActorIds : RecordingTileRecv(a)
    \/ Elapse
    \/ GetRecordedTransactions

\* a miner that hands what it makes to the storage on its right
InitLog == InitProd /\ data[ActorFor(ProducerCoord)].target = Some(RIGHT)

SpecLog == InitLog /\ [][NextLog]_vars

\* the renderer keeps drawing frames
SpecLogFair == SpecLog /\ WF_vars(GetRecordedTransactions)

\* ====================================================================
\* A frame of the event loop: TakeDataMap, the tile-config window with
\* takeable_item, SetDataMap (bin/automancy/event.rs, gui/tile_config.rs)
\* ====================================================================

\* the player's inventory in a DataMap, empty when the key is not set
PlayerInventory(map) ==
    IF "player_inventory" \in DOMAIN map THEN map["player_inventory"] ELSE <<>>

\* block_on(setup.game.call(GameMsg::TakeDataMap)): the frame holds the
\* coordinator's DataMap, the coordinator is left with an empty one
TakeDataMap ==
    /\ frame.pc = "idle"
    /\ frame' = [frame EXCEPT !.pc = "taken", !.game_data = world]
    /\ world' = NoData
    /\ handled' = Msg("TakeDataMap", 0, NoneId, None, Some(world), None)
    /\ UNCHANGED <<tiles, tick_count, running, mailbox, asker, data, undoVars,
                   diskVars, linker, transactions, closing, saving, asking,
                   transaction_log, produced>>

\* tile_config: block_on(entity.call(TileEntityMsg::GetData)) is answered
\* once the tile has taken what was in its mailbox; the window holds the
\* buffer of that answer
TileConfig(a) ==
    /\ frame.pc = "taken"
    /\ a \in ActorsOf(tiles) \cap running
    /\ mailbox[a] = <<>>
    /\ frame' = [frame EXCEPT !.pc = "shown", !.entity = a, !.buffer = data[a].inventory]
    /\ UNCHANGED <<tiles, tick_count, running, mailbox, handled, asker, data, undoVars,
                   diskVars, linker, transactions, closing, saving, asking,
                   transaction_log, world, produced>>

\* takeable_item with a click on item: buffer.take(id, amount) of the whole
\* amount shown, inventory.add(id, amount) on the player's inventory in
\* game_data, then SetDataValue(buffer, Data::Inventory(buffer)) to the tile
TakeableItem(item) ==
    LET took == Take(frame.buffer, item, Amount(frame.buffer, item))
        inventory == PlayerInventory(frame.game_data)
    IN  /\ frame.pc = "shown"
        /\ item \in DOMAIN frame.buffer
        /\ took.taken # None
        /\ Len(mailbox[frame.entity]) < MaxMailbox + 1
        /\ frame' = [frame EXCEPT
                        !.pc = "clicked",
                        !.buffer = took.inventory,
                        !.game_data = [key \in DOMAIN frame.game_data \cup {"player_inventory"} |->
                                          IF key = "player_inventory"
                                          THEN Add(inventory, item, CHOOSE n \in took.taken : TRUE)
                                          ELSE frame.game_data[key]]]
        /\ mailbox' = Tell(mailbox, {frame.entity},
                           [type |-> "SetDataValue", key |-> "buffer", value |-> took.inventory])
        /\ UNCHANGED <<tiles, tick_count, running, handled, asker, data, undoVars,
                       diskVars, linker, transactions, closing, saving, asking,
                       transaction_log, world, produced>>

\* setup.game.send_message(GameMsg::SetDataMap(game_data)), handled: the
\* coordinator's DataMap is the one the frame held (handled.old keeps the
\* one the coordinator had until then)
SetDataMap ==
    /\ frame.pc # "idle"
    /\ world' = frame.game_data
    /\ frame' = NoFrame
    /\ handled' = Msg("SetDataMap", 0, NoneId, Some(world), None, Some(frame.game_data))
    /\ UNCHANGED <<tiles, tick_count, running, mailbox, asker, data, undoVars,
                   diskVars, linker, transactions, closing, saving, asking,
                   transaction_log, produced>>

\* a tile takes its next message; what a Tick or a Transaction adds to its
\* buffer or takes from it is counted
CountingTileRecv(a) ==
    /\ TileTake(a)
    /\ produced' = [item \in ItemIds |->
                       produced[item] +
                       (IF Head(mailbox[a]).type \in {"Tick", "Transaction"}
                        THEN Amount(data'[a].inventory, item) - Amount(data[a].inventory, item)
                        ELSE 0)]
    /\ UNCHANGED <<closing, saving, asking, transaction_log, world, frame>>

\* a miner that mines ore for the storage on its right, all buffers empty
InitTake ==
    /\ InitProd
    /\ data[ActorFor(ProducerCoord)] =
          [DefaultEntity EXCEPT !.script = Some("mine"), !.target = Some(RIGHT)]

NextTake ==
    \/ tick_count < InventoryCap /\ Tick
    \/ \E a \in ActorIds : CountingTileRecv(a)
    \/ TakeDataMap
    \/ \E a \in ActorIds : TileConfig(a)
    \/ \E item \in ItemIds : TakeableItem(item)
    \/ SetDataMap

SpecTake == InitTake /\ [][NextTake]_vars

\* ------------------------------------------- world-level data that is
\* set while a frame holds the DataMap
\* the researches a message can report as unlocked
Researches == {{}, {"miner"}}

\* the coordinator handles an explicit Set message for a key of its DataMap
GameSetDataValue(key, value) ==
    /\ ~(key \in DOMAIN world /\ world[key] = value)
    /\ world' = [k \in DOMAIN world \cup {key} |-> IF k = key THEN value ELSE world[k]]
    /\ handled' = Msg("SetDataValue", 0, NoneId, None, None, Some([key |-> key, value |-> value]))
    /\ UNCHANGED <<tiles, tick_count, running, mailbox, asker, data, undoVars,
                   diskVars, linker, transactions, closing, saving, asking,
                   transaction_log, frame, produced>>

NextFrame ==
    \/ tick_count < InventoryCap /\ Tick
    \/ \E a \in ActorIds : CountingTileRecv(a)
    \/ TakeDataMap
    \/ \E a \in ActorIds : TileConfig(a)
    \/ \E item \in ItemIds : TakeableItem(item)
    \/ SetDataMap
    \/ \E value \in Researches : GameSetDataValue("unlocked_researches", value)

SpecFrame == InitTake /\ [][NextFrame]_vars

\* ------------------------------------------ ticks over a changing map
\* the coordinator places and removes tiles between Ticks, over a region of
\* more than one coordinate
NextTicks ==
    \/ \E c \in MapCoord, id \in MoveIds : PlaceTile(c, id, NoneId)
    \/ Tick
    \/ \E a \in ActorIds : TileRecv(a)

SpecTicks == Init /\ [][NextTicks]_vars

\* ------------------------------------------------- an inventory in use
\* the inventories: some items, each with a count within the capacity
Inventories == UNION {[d -> 0 .. InventoryCap] : d \in SUBSET ItemIds}
\* the amounts asked for, up to one more than the capacity
Amounts == 0 .. (InventoryCap + 1)

\* a tile at coordinate 0 whose buffer is any inventory
InitInv ==
    /\ InitCommon
    /\ tiles = [c \in {0} |-> [id |-> "node", actor |-> ActorFor(c)]]
    /\ running = {ActorFor(0)}
    /\ \E inventory \in Inventories :
          data = [a \in ActorIds |->
                    IF a = ActorFor(0)
                    THEN [DefaultEntity EXCEPT !.inventory = inventory]
                    ELSE DefaultEntity]

\* an operation on the buffer: which one, on which item, with which amount,
\* what it returned, the inventory it started from, and (old) the
\* operation right before it
Used(op, k, m, returned, inventory) ==
    Msg(op, 0, k,
        Some([type |-> handled.type, id |-> handled.id, note |-> handled.note]),
        returned, Some([amount |-> m, inventory |-> inventory]))

\* inventory.add(id, amount)
AddItem(k, m) ==
    /\ data' = [data EXCEPT ![ActorFor(0)].inventory = Add(@, k, m)]
    /\ handled' = Used("add", k, m, None, data[ActorFor(0)].inventory)
    /\ UNCHANGED <<tiles, tick_count, running, mailbox, asker, beyondGame>>

\* buffer.take(id, amount)
TakeItem(k, m) ==
    LET took == Take(data[ActorFor(0)].inventory, k, m)
    IN  /\ data' = [data EXCEPT ![ActorFor(0)].inventory = took.inventory]
        /\ handled' = Used("take", k, m, took.taken, data[ActorFor(0)].inventory)
        /\ UNCHANGED <<tiles, tick_count, running, mailbox, asker, beyondGame>>

NextInv ==
    \/ \E k \in ItemIds, m \in Amounts : AddItem(k, m)
    \/ \E k \in ItemIds, m \in Amounts : TakeItem(k, m)

SpecInv == InitInv /\ [][NextInv]_vars

\* ------------------------------------------- the tile's configuration
\* the values the configuration stores: a coordinate or an amount, zero
\* among them
DataValues == 0 .. 1

\* tile_entity.send_message(SetDataValue(key, value))
SendSetDataValue(a, key, value) ==
    /\ a \in running
    /\ Len(mailbox[a]) < MaxMailbox
    /\ mailbox' = Tell(mailbox, {a}, [type |-> "SetDataValue", key |-> key, value |-> value])
    /\ UNCHANGED <<tiles, tick_count, running, handled, asker, data, beyondGame>>

\* tile_entity.send_message(RemoveData(key))
SendRemoveData(a, key) ==
    /\ a \in running
    /\ Len(mailbox[a]) < MaxMailbox
    /\ mailbox' = Tell(mailbox, {a}, [type |-> "RemoveData", key |-> key, value |-> 0])
    /\ UNCHANGED <<tiles, tick_count, running, handled, asker, data, beyondGame>>

\* the tile that is being configured, if it is there, in some state
InitData == InitWith({0})

NextData ==
    \/ \E key \in DataKeys, value \in DataValues :
          SendSetDataValue(ActorFor(0), key, value)
    \/ \E key \in DataKeys : SendRemoveData(ActorFor(0), key)
    \/ TileRecv(ActorFor(0))

SpecData == InitData /\ [][NextData]_vars

\* ------------------------------------------------- game/data/id.rs
\* the characters of the strings: two letters and the separator
Chars == {"a", "n", ":"}
\* the strings of at most n characters
StringsUpTo(n) == UNION {[1 .. len -> Chars] : len \in 0 .. n}
Strings == StringsUpTo(MaxStr)
\* byte strings: the characters and the terminator \0
Bytes == UNION {[1 .. len -> Chars \cup {"0"}] : len \in 0 .. (MaxStr + 1)}

\* str::contains
Contains(str, ch) == \E i \in 1 .. Len(str) : str[i] = ch

\* str::split(ch).collect::<Vec<_>>()
RECURSIVE Split(_, _)
Split(str, ch) ==
    IF ~Contains(str, ch) THEN <<str>>
    ELSE <<SplitOnce(str, ch)[1]>> \o Split(SplitOnce(str, ch)[2], ch)

\* Id::new: the Id, or nothing when an assert! fails
IdNew(namespace, name) ==
    IF Contains(namespace, ":") \/ Contains(name, ":")
    THEN None
    ELSE Some([namespace |-> namespace, name |-> name])

\* "automancy" and "none"
Automancy == <<"a">>
NoneName == <<"n">>

\* Id::none
IdNone == IdNew(Automancy, NoneName)

\* Id::automancy
IdAutomancy(name) == IdNew(Automancy, name)

\* Id::from_str: split_once(':').expect(..), then the two assert!s
IdFromStr(string) ==
    IF ~Contains(string, ":") THEN None
    ELSE LET namespace == SplitOnce(string, ":")[1]
             name == SplitOnce(string, ":")[2]
         IN  IF Contains(namespace, ":") \/ Contains(name, ":")
             THEN None
             ELSE Some([namespace |-> namespace, name |-> name])

\* RawId::from_bytes: up to the first \0 (unwrap), split at every ':',
\* parts 0 and 1 (index out of bounds when there is no ':')
RawIdFromBytes(bytes) ==
    IF ~Contains(bytes, "0") THEN None
    ELSE LET null == CHOOSE i \in 1 .. Len(bytes) :
                         bytes[i] = "0" /\ \A j \in 1 .. (i - 1) : bytes[j] # "0"
             split == Split(SubSeq(bytes, 1, null - 1), ":")
         IN  IF Len(split) < 2 THEN None
             ELSE Some([namespace |-> split[1], name |-> split[2]])

\* the values of the type RawId: a public struct of two public Strings
RawIds == [namespace : Strings, name : Strings]

\* impl From<RawId> for Id
IdFromRawId(val) == [namespace |-> val.namespace, name |-> val.name]

\* the calls of the constructors: handled keeps which one was called, with
\* what (note), and what it returned (reply)
CallIdNew(namespace, name) ==
    /\ handled' = Msg("Id::new", 0, NoneId, None, IdNew(namespace, name), Some(<<namespace, name>>))
    /\ UNCHANGED <<tiles, tick_count, running, mailbox, asker, data, beyondGame>>

CallIdFromStr(string) ==
    /\ handled' = Msg("Id::from_str", 0, NoneId, None, IdFromStr(string), Some(string))
    /\ UNCHANGED <<tiles, tick_count, running, mailbox, asker, data, beyondGame>>

CallIdAutomancy(name) ==
    /\ handled' = Msg("Id::automancy", 0, NoneId, None, IdAutomancy(name), Some(name))
    /\ UNCHANGED <<tiles, tick_count, running, mailbox, asker, data, beyondGame>>

CallIdNone ==
    /\ handled' = Msg("Id::none", 0, NoneId, None, IdNone, Some(<<>>))
    /\ UNCHANGED <<tiles, tick_count, running, mailbox, asker, data, beyondGame>>

CallRawIdFromBytes(bytes) ==
    /\ handled' = Msg("RawId::from_bytes", 0, NoneId, None, RawIdFromBytes(bytes), Some(bytes))
    /\ UNCHANGED <<tiles, tick_count, running, mailbox, asker, data, beyondGame>>

CallIdFromRawId(val) ==
    /\ handled' = Msg("Id::from", 0, NoneId, None, Some(IdFromRawId(val)), Some(val))
    /\ UNCHANGED <<tiles, tick_count, running, mailbox, asker, data, beyondGame>>

NextId ==
    \/ \E namespace \in Strings, name \in Strings : CallIdNew(namespace, name)
    \/ \E string \in StringsUpTo(MaxStr + 1) : CallIdFromStr(string)
    \/ \E name \in Strings : CallIdAutomancy(name)
    \/ CallIdNone
    \/ \E bytes \in Bytes : CallRawIdFromBytes(bytes)
    \/ \E val \in RawIds : CallIdFromRawId(val)

SpecId == Init /\ [][NextId]_vars

C1_PlaceThenGet ==
    handled.type = "GetTile" =>
        \A T \in handled.note :
            IF T = NoneId
            THEN handled.reply = None
            ELSE /\ handled.reply # None
                 /\ \A t \in handled.reply : t.id = T

\* a GetTile answered Some(T) right after a PlaceTile(c, T)
C1_Witness ==
    /\ handled.type = "GetTile"
    /\ handled.note # None
    /\ handled.note # Some(NoneId)
    /\ handled.reply # None

\* C9: a PlaceTile(c, T), T not the none type, handled for an occupied c
\* stops the old actor and replaces the entry in the same step, so c is
\* never empty in between: the step ends with c referring to a new running
\* actor, and the GetTile, RenderInfoRequest or Tick handled next sees c
\* occupied by that actor and not by the old one.
C9_ReplaceIsAtomic ==
    [][\A c \in DOMAIN tiles :
          /\ (\E id \in TileIds \ {NoneId} : PlaceTile(c, id, NoneId)) =>
                /\ c \in DOMAIN tiles'
                /\ tiles'[c].actor # tiles[c].actor
                /\ tiles'[c].actor \in running'
                /\ tiles[c].actor \notin running'
          /\ ( /\ handled.type = "PlaceTile" /\ handled.coord = c
               /\ handled.id # NoneId /\ handled.old # None ) =>
                /\ GetTile(c) =>
                      /\ handled'.reply # None
                      /\ \A t \in handled'.reply, o \in handled.old :
                            t.id = handled.id /\ t.actor # o.actor
                /\ RenderInfoRequest => <<c, handled.id>> \in handled'.reply
                /\ Tick =>
                      /\ Len(mailbox'[tiles[c].actor]) = Len(mailbox[tiles[c].actor]) + 1
                      /\ \A o \in handled.old : mailbox'[o.actor] = <<>>
      ]_vars

\* a PlaceTile that replaced a tile was the last message handled
C9_Witness ==
    /\ handled.type = "PlaceTile"
    /\ handled.id # NoneId
    /\ handled.old # None
    /\ handled.coord \in DOMAIN tiles
    /\ \A o \in handled.old : o.actor \notin running

\* C7: a query to an empty coordinate or to a removed tile is answered: an
\* asker that waits has its query held by an actor that will handle it (the
\* coordinator or a running tile).  Once nobody holds the query no answer
\* can come, and the asker waits forever.
C7_AskerIsAnswered ==
    asker.state = "waiting" =>
        \/ asker.held = "game"
        \/ asker.held = "tile" /\ asker.tile \in running
\* ====================================================================
\* Claims about Undo with an empty history (SpecTickUndo)
\* ====================================================================

\* C3: Undo handled while the undo history is empty changes nothing: the
\* map, the tile actors, the undo history and the tick counter stay, no
\* handler panics, and a save would write what it would have written before.
C3_UndoOnEmptyIsNoOp ==
    [][(undo_steps = <<>> /\ Undo) =>
          /\ tiles' = tiles
          /\ running' = running
          /\ undo_steps' = undo_steps
          /\ tick_count' = tick_count
          /\ panicked' = panicked
          /\ SaveRecords(tiles', Settled(data', mailbox'))
                = SaveRecords(tiles, Settled(data, mailbox))
      ]_vars

\* an Undo found the history empty while the map held a tile and the tick
\* counter had advanced
C3_Witness ==
    /\ handled.type = "Undo"
    /\ handled.note = None
    /\ undo_steps = <<>>
    /\ tiles # <<>>
    /\ tick_count # 0

\* ====================================================================
\* Claims about persistence (SpecMap)
\* ====================================================================

\* what the last load opened
Opened == CHOOSE n \in handled.note : TRUE

\* the table a save of the state in before writes
BeforeRecords ==
    [coord \in DOMAIN before |->
        TileData(IdRawParse(Resolve(before[coord].id)), before[coord].entity)]

\* the last message handled was the load of the file the last save wrote,
\* under a configuration that knows the type of every saved tile
LoadedBack ==
    /\ handled.type = "LoadMap"
    /\ Opened.file.kind = "valid"
    /\ Opened.file.records = BeforeRecords
    /\ \A coord \in DOMAIN before : before[coord].id \in known

\* C4: a map saved and loaded back has the same occupied coordinates and,
\* for every tile, the same type, inventory, target and link as before the
\* save, when the configuration knows every tile's type.
C4_SaveLoadRoundTrip ==
    LoadedBack =>
        /\ DOMAIN tiles = DOMAIN before
        /\ \A coord \in DOMAIN before :
              LET entity == Settled(data, mailbox)[tiles[coord].actor]
              IN  /\ tiles[coord].id = before[coord].id
                  /\ entity.inventory = before[coord].entity.inventory
                  /\ entity.target = before[coord].entity.target
                  /\ entity.link = before[coord].entity.link

\* C5: a load that finds no file, or a file that does not decode, installs
\* the empty map under the requested name and no handler panics.
C5_LoadOfBadFileGivesEmptyMap ==
    (handled.type = "LoadMap" /\ Opened.file.kind \in {"missing", "corrupt"}) =>
        /\ ~panicked
        /\ tiles = <<>>
        /\ running = {}
        /\ map_name = Opened.name

\* C6: a load drops the records whose type the configuration does not know
\* and creates no actor for them, installs every other record of the file
\* at its coordinate with its type and a running actor, and does not panic.
C6_UnknownTypesAreDropped ==
    (handled.type = "LoadMap" /\ Opened.file.kind = "valid") =>
        /\ ~panicked
        /\ DOMAIN tiles \subseteq DOMAIN Opened.file.records
        /\ running = ActorsOf(tiles)
        /\ \A coord \in DOMAIN Opened.file.records :
              LET name == IdRawToString(Opened.file.records[coord].id)
              IN  IF \E id \in known : Resolve(id) = name
                  THEN /\ coord \in DOMAIN tiles
                       /\ Resolve(tiles[coord].id) = name
                       /\ tiles[coord].actor \in running
                  ELSE coord \notin DOMAIN tiles

\* a load kept one record of a file and dropped another
C6_Witness ==
    /\ handled.type = "LoadMap"
    /\ Opened.file.kind = "valid"
    /\ tiles # <<>>
    /\ DOMAIN tiles # DOMAIN Opened.file.records

\* ====================================================================
\* Claims about linking (SpecLink)
\* ====================================================================

\* the link a tile actor holds once it has taken what is in its mailbox
LinkOf(dat, box, a) == Settle(dat[a], box[a]).link

\* C8: a link request sets the linkable tile's link to the source when the
\* tile has none and clears it when it has one; a second request for the
\* same pair after one that set the link leaves the tile without a link;
\* the tile holds at most one link value.
C8_LinkingIsAToggle ==
    [][LinkApply =>
          LET a == linker.entity
              was == LinkOf(data, mailbox, a)
              now == LinkOf(data', mailbox', a)
          IN  /\ was = None => now = Some(linker.source)
              /\ was # None => now = None
              /\ Cardinality(now) <= 1
              /\ \A last \in linker.last :
                    (last.at = linker.at /\ last.source = linker.source
                        /\ last.was = None) => now = None
      ]_vars

\* a request set a link and the next request, for the same pair, found it
C8_Witness ==
    /\ linker.pc = "answered"
    /\ linker.old = Some(linker.source)
    /\ \E last \in linker.last :
          /\ last.at = linker.at
          /\ last.source = linker.source
          /\ last.was = None

\* ====================================================================
\* Claims about the undo history with MoveTiles (SpecMove)
\* ====================================================================

\* C11: a PlaceTile or MoveTiles handled with record=false leaves the undo
\* history as it is, an Undo never adds to it, and after every PlaceTile,
\* MoveTiles and Undo the history holds at most UndoBound entries.
C11_HistoryIsBounded ==
    [][/\ Len(undo_steps') <= UndoBound
       /\ PlaceTileRecord(handled'.coord, handled'.id, FALSE) => undo_steps' = undo_steps
       /\ (handled'.type = "MoveTiles" /\ \E met \in handled'.note : ~met.record)
             => undo_steps' = undo_steps
       /\ handled'.type = "Undo" => Len(undo_steps') <= Len(undo_steps)
      ]_vars

\* a recorded move of a tile was pushed onto a history that stays full
C11_Witness ==
    /\ handled.type = "MoveTiles"
    /\ \E met \in handled.note : met.record /\ met.steps # <<>>
    /\ Len(undo_steps) = UndoBound
    /\ tiles # <<>>

\* every Tick that was sent has been processed, and so has every item
\* that was handed over
FullyProcessed == \A a \in ActorIds : mailbox[a] = <<>>

\* the TransactionRecords logged for (source, destination)
Records(source, destination) ==
    IF <<source, destination>> \in DOMAIN transactions
    THEN transactions[<<source, destination>>]
    ELSE 0

\* the producer of the scenario: script "mine" (no input, one ore per Tick)
\* and target RIGHT
MinesToTheRight ==
    /\ data[ActorFor(ProducerCoord)].script = Some("mine")
    /\ data[ActorFor(ProducerCoord)].target = Some(RIGHT)

RECURSIVE TickNumbers(_)
TickNumbers(box) ==
    IF box = <<>> THEN <<>>
    ELSE IF Head(box).type = "Tick"
         THEN <<Head(box).tick_count>> \o TickNumbers(Tail(box))
         ELSE TickNumbers(Tail(box))

\* the numbers are consecutive, modulo the wrap of the counter, and the
\* last of them is the one before next
ConsecutiveUpTo(numbers, next) ==
    \A i \in 1 .. Len(numbers) :
        numbers[i] = (next + 2 ^ TickBits - (Len(numbers) - i + 1)) % (2 ^ TickBits)

Returned(reply) == IF reply = None THEN 0 ELSE CHOOSE n \in reply : TRUE

\* the inventory the tile's buffer holds
Buffer == data[ActorFor(0)].inventory

\* C15: a take(k, m) with m greater than the current count of k returns the
\* amount that was available and leaves the count of k at 0; no take ever
\* makes a count negative
C15_TakeIsCappedByTheCount ==
    handled.type = "take" =>
        LET started == handled.note
        IN  /\ \A b \in started :
                  b.amount > Amount(b.inventory, handled.id) =>
                      /\ Returned(handled.reply) = Amount(b.inventory, handled.id)
                      /\ Amount(Buffer, handled.id) = 0
            /\ \A k \in DOMAIN Buffer : Buffer[k] >= 0

\* a take of more than the two that were there returned two
C15_Witness ==
    /\ handled.type = "take"
    /\ handled.reply = Some(2)
    /\ \E b \in handled.note : b.amount > 2
    /\ Amount(Buffer, handled.id) = 0

\* the operation before the last one was add(k, m) for the k and m of the
\* last one, a take
TookWhatWasAdded ==
    /\ handled.type = "take"
    /\ \E earlier \in handled.old :
          /\ earlier.type = "add"
          /\ earlier.id = handled.id
          /\ \E a \in earlier.note, t \in handled.note : a.amount = t.amount

\* the inventory before the add, and the amount added and taken
BeforeAdd == (CHOOSE a \in (CHOOSE earlier \in handled.old : TRUE).note : TRUE).inventory
Added == (CHOOSE t \in handled.note : TRUE).amount

\* the counts of every item are what they were before the add
SameCounts == \A k \in ItemIds : Amount(Buffer, k) = Amount(BeforeAdd, k)

OthersKept(a, key) ==
    /\ \A other \in DataKeys \ {key} :
          GetDataValue(data'[a], other) = GetDataValue(data[a], other)
    /\ data'[a].script = data[a].script
    /\ data'[a].inventory = data[a].inventory

\* C17: once a tile has processed SetDataValue(k, v), GetDataValue(k) gives
\* Some(v) whatever k held before, also for a falsy v, which an unset key
\* never gives; once it has processed RemoveData(k), GetDataValue(k) gives
\* None; neither message changes the value of another key
C17_DataMapSetGetRemove ==
    [][\A a \in ActorIds :
          (TileRecv(a) /\ Head(mailbox[a]).type \in {"SetDataValue", "RemoveData"}) =>
              LET msg == Head(mailbox[a])
              IN  /\ msg.type = "SetDataValue" =>
                        /\ GetDataValue(data'[a], msg.key) = Some(msg.value)
                        /\ GetDataValue(data'[a], msg.key) # None
                  /\ msg.type = "RemoveData" =>
                        GetDataValue(data'[a], msg.key) = None
                  /\ OthersKept(a, msg.key)
      ]_vars

\* a tile holds the amount zero that it was told to store, and a link, and
\* its target was removed
C17_Witness ==
    \E a \in running :
        /\ GetDataValue(data[a], "amount") = Some(0)
        /\ GetDataValue(data[a], "link") = Some(1)
        /\ GetDataValue(data[a], "target") = None
        /\ data[a].script # None

\* the tiles an entity refers to: the neighbour in the direction of its
\* target and the tile of its link
Referenced(map, coord, entity) ==
    ({coord + t : t \in entity.target} \cup entity.link) \cap DOMAIN map

\* actor a is a tile of the map with a script whose input is neither in its
\* own buffer nor in the buffer of a tile it refers to
InputUnavailable(a) ==
    /\ a \in ActorsOf(tiles)
    /\ data[a].script # None
    /\ \E i \in Instructions(CHOOSE s \in data[a].script : TRUE).input :
          /\ Amount(data[a].inventory, i) = 0
          /\ \A c \in Referenced(tiles, CoordOf(tiles, a), data[a]) :
                Amount(data[tiles[c].actor].inventory, i) = 0

LoadedDomain ==
    IF Opened.file.kind = "valid"
    THEN LoadedCoords(Opened.file.records, known)
    ELSE {}

\* C20: after a LoadMap is handled the only tile actors that run are those
\* of the loaded map, no other actor has a message to process, and the
\* coordinator's map is exactly the loaded one, under the requested name
C20_LoadMapReplacesTheMap ==
    handled.type = "LoadMap" =>
        /\ running = ActorsOf(tiles)
        /\ \A a \in ActorIds \ running : mailbox[a] = <<>>
        /\ DOMAIN tiles = LoadedDomain
        /\ map_name = Opened.name

\* C23: the coordinator can handle a RenderInfoRequest in every state, also
\* while tiles have Ticks they have not processed; the snapshot it replies is
\* its own tile table, and handling it changes neither the map nor the tick
\* counter nor any tile's mailbox or data
C23_RenderNeverWaits ==
    [][/\ ENABLED RenderInfoRequest
       /\ RenderInfoRequest =>
            /\ handled'.reply = RenderInfo(tiles)
            /\ tiles' = tiles
            /\ tick_count' = tick_count
            /\ mailbox' = mailbox
            /\ data' = data
      ]_vars

\* a snapshot of a map with a tile was replied while the tile had a Tick to
\* process
C23_Witness ==
    /\ handled.type = "RenderInfoRequest"
    /\ handled.reply # {}
    /\ \E a \in ActorsOf(tiles) : TickNumbers(mailbox[a]) # <<>>

\* the constructors that return an Id
IdConstructors == {"Id::new", "Id::from_str", "Id::automancy", "Id::none", "Id::from"}

\* C26: every Id a constructor or the conversion from a RawId returns has a
\* namespace and a name without the separator
C26_NoSeparatorInAnyId ==
    handled.type \in IdConstructors =>
        \A id \in handled.reply :
            ~Contains(id.namespace, ":") /\ ~Contains(id.name, ":")

\* C29: whatever PlaceTile messages were handled, the running tile actors
\* are exactly the actors the map refers to, and no two coordinates share an
\* actor
C29_ActorsAreTheMapsActors ==
    /\ running = ActorsOf(tiles)
    /\ \A c, d \in DOMAIN tiles : tiles[c].actor = tiles[d].actor => c = d

\* a tile was replaced while another coordinate was occupied
C29_Witness ==
    /\ handled.type = "PlaceTile"
    /\ handled.old # None
    /\ handled.id # NoneId
    /\ Cardinality(DOMAIN tiles) = 2
    /\ Cardinality(running) = 2

\* the types of the messages Map::load sends to a tile
LoadTypes == {"SetTarget", "SetScript", "SetData"}

\* the tile at coord has a message of the load still waiting
LoadPending(a) == \E i \in 1 .. Len(mailbox[a]) : mailbox[a][i].type \in LoadTypes

\* the script a loaded tile is given for the record of its coordinate
RestoredScript(record) ==
    UNION {InternerGet(known, IdRawToString(script)) : script \in record.script}

\* C30: at a tile of the map no Tick waits in front of a message of the
\* load, and when a tile of a map that was loaded from or saved to its file
\* has a Tick to process next, no message of the load is still waiting and
\* the tile holds the target and the script of its record, not the defaults
C30_LoadedStateBeforeFirstTick ==
    \A coord \in DOMAIN tiles :
        LET a == tiles[coord].actor
            opened == file[map_name]
        IN  /\ \A i, j \in 1 .. Len(mailbox[a]) :
                  mailbox[a][i].type = "Tick" /\ mailbox[a][j].type \in LoadTypes => j < i
            /\ (/\ opened.kind = "valid"
                /\ coord \in DOMAIN opened.records
                /\ mailbox[a] # <<>>
                /\ Head(mailbox[a]).type = "Tick")
               => /\ ~LoadPending(a)
                  /\ data[a].target = opened.records[coord].target
                  /\ data[a].script = RestoredScript(opened.records[coord])

\* a Tick waits behind the messages of a load at a tile whose record has a
\* target and a script
C30_Witness ==
    \E coord \in DOMAIN tiles :
        LET a == tiles[coord].actor
        IN  /\ file[map_name].kind = "valid"
            /\ coord \in DOMAIN file[map_name].records
            /\ file[map_name].records[coord].target # None
            /\ file[map_name].records[coord].script # None
            /\ LoadPending(a)
            /\ mailbox[a][Len(mailbox[a])].type = "Tick"
            /\ data[a] = DefaultEntity

\* the last message handled was a SaveMap whose file could not be created
WriteFailed == handled.type = "SaveMap" /\ handled.note # None

\* C25: when the file of a SaveMap cannot be created, the caller is replied
\* a failure and the coordinator has not crashed
C25_WriteFailureIsReturned ==
    WriteFailed => /\ ~panicked
                   /\ handled.reply # None

\* C21: once StopTicking was handled no step puts a further Tick into a
\* tile's mailbox; the coordinator stops only when the final save has
\* completed and every tile of the map has answered it; and no tile actor
\* ends before the coordinator has stopped
C21_ShutdownOrder ==
    [][/\ ~closing.ticking =>
            \A a \in ActorIds :
                Len(TickNumbers(mailbox'[a])) <= Len(TickNumbers(mailbox[a]))
       /\ (closing.pc # "stopped" /\ closing'.pc = "stopped") =>
            /\ closing'.saved
            /\ closing'.answered = ActorsOf(tiles)
       /\ running' # running => closing.pc = "stopped"
      ]_vars

\* C22: the coordinator is never inside a handler waiting for a tile's
\* reply, no tile is inside a handler waiting for the coordinator's reply,
\* and so never does the coordinator wait for a tile that waits for it
C22_NoActorWaitsInItsHandler ==
    /\ saving.at = 0
    /\ asking = {}
    /\ transaction_log = <<>>
    /\ world = NoData
    /\ frame = NoFrame
    /\ produced = [item \in ItemIds |-> 0]
    /\ ~(saving.at \in asking)

\* the records of a log without their ages
Unaged(records) ==
    [i \in DOMAIN records |-> [source |-> records[i].source, coord |-> records[i].coord]]

\* some record of the log has outlived its animation
Overdue == \E i \in DOMAIN transaction_log : Elapsed(transaction_log[i])

CurrentData == IF frame.pc = "idle" THEN world ELSE frame.game_data

\* what the buffers of the tiles and the player's inventory hold of an item
Held(item) ==
    LET RECURSIVE Sum(_)
        Sum(actors) == IF actors = {} THEN 0
                       ELSE LET a == CHOOSE x \in actors : TRUE
                            IN  Amount(data[a].inventory, item) + Sum(actors \ {a})
    IN  Sum(ActorsOf(tiles)) + Amount(PlayerInventory(CurrentData), item)

\* a buffer written back by the tile-config window is still in a mailbox
WriteBackPending ==
    \E a \in ActorIds : \E i \in DOMAIN mailbox[a] : mailbox[a][i].type = "SetDataValue"

\* C27: once the tile has taken the buffer the tile-config window wrote
\* back, the buffers and the player's inventory together hold of every item
\* exactly what the tiles' own Ticks and Transactions have put into buffers
C27_TakingConservesItems ==
    ~WriteBackPending => \A item \in ItemIds : Held(item) = produced[item]

====
